---- MODULE Spec2Model ----
(***************************************************************************)
(* TreeMap<K, V>: a map kept as an unbalanced binary search tree, with a   *)
(* lazy in-order input iterator (src/TreeMap.h).                           *)
(*                                                                         *)
(* The node graph is modelled as a heap: a function from the addresses     *)
(* that are currently allocated to the TreeMapNode stored there.  `new`    *)
(* takes an address out of the free ones, `delete` gives it back.          *)
(***************************************************************************)
EXTENDS Integers, Sequences, FiniteSets, TLC

\* ------------------------------------------------------------------ bounds
MaxKey == 3
MaxNodes == 3

Keys == 1..MaxKey
Vals == {"a", "b"}
Addrs == 1..MaxNodes

\* -------------------------------------------------------------- constants
nullptr == 0
\* unsigned int: a value is held as the signed reading of its 32 bits, so
\* UINT_MAX (all bits set), the result of decrementing 0, is -1
UINT_MAX == -1
Inc(n) == IF n = UINT_MAX THEN 0 ELSE n + 1
Dec(n) == IF n = 0 THEN UINT_MAX ELSE n - 1
NoVal == "-"

\* heap, root_, size_: the node graph and the two members of the TreeMap
\* it: the TreeIterator object the caller holds (its toBeProcessed_)
\* ret: what the last call gave back to the caller
VARIABLES heap, root_, size_, it, ret

vars == <<heap, root_, size_, it, ret>>

\* ------------------------------------------------------------ allocation
FreeAddrs == Addrs \ DOMAIN heap

New(h, a, node) == [x \in DOMAIN h \cup {a} |-> IF x = a THEN node ELSE h[x]]

Delete(h, a) == [x \in DOMAIN h \ {a} |-> h[x]]

TreeMapNode(k, v) == [key |-> k, value |-> v, right |-> nullptr, left |-> nullptr]

\* ------------------------------------------ faulty variants of addHelper
\* descends to the wrong side: left for a greater key, right for a smaller
RECURSIVE addHelper_Mirrored(_, _, _)
addHelper_Mirrored(h, current, newElement) ==
    IF current = nullptr
    THEN [heap |-> h, node |-> newElement, success |-> TRUE]
    ELSE IF h[current].key < h[newElement].key
    THEN LET r == addHelper_Mirrored(h, h[current].left, newElement)
         IN  [heap |-> [r.heap EXCEPT ![current].left = r.node],
              node |-> current, success |-> r.success]
    ELSE IF h[current].key > h[newElement].key
    THEN LET r == addHelper_Mirrored(h, h[current].right, newElement)
         IN  [heap |-> [r.heap EXCEPT ![current].right = r.node],
              node |-> current, success |-> r.success]
    ELSE [heap |-> Delete(h, newElement), node |-> current, success |-> FALSE]

\* on a key collision stores the new value in the node that is there
RECURSIVE addHelper_Overwrite(_, _, _)
addHelper_Overwrite(h, current, newElement) ==
    IF current = nullptr
    THEN [heap |-> h, node |-> newElement, success |-> TRUE]
    ELSE IF h[current].key < h[newElement].key
    THEN LET r == addHelper_Overwrite(h, h[current].right, newElement)
         IN  [heap |-> [r.heap EXCEPT ![current].right = r.node],
              node |-> current, success |-> r.success]
    ELSE IF h[current].key > h[newElement].key
    THEN LET r == addHelper_Overwrite(h, h[current].left, newElement)
         IN  [heap |-> [r.heap EXCEPT ![current].left = r.node],
              node |-> current, success |-> r.success]
    ELSE [heap |-> Delete([h EXCEPT ![current].value = h[newElement].value],
                          newElement),
          node |-> current, success |-> FALSE]

\* ------------------------------------------------------------- addHelper
\* Result: the heap after the call, the returned subtree root, *success.
RECURSIVE addHelper(_, _, _)
addHelper(h, current, newElement) ==
    IF current = nullptr
    THEN [heap |-> h, node |-> newElement, success |-> TRUE]
    ELSE IF h[current].key < h[newElement].key
    THEN LET r == addHelper(h, h[current].right, newElement)
         IN  [heap |-> [r.heap EXCEPT ![current].right = r.node],
              node |-> current, success |-> r.success]
    ELSE IF h[current].key > h[newElement].key
    THEN LET r == addHelper(h, h[current].left, newElement)
         IN  [heap |-> [r.heap EXCEPT ![current].left = r.node],
              node |-> current, success |-> r.success]
    ELSE [heap |-> Delete(h, newElement), node |-> current, success |-> FALSE]

\* --------------------------------------- faulty variants of removeHelper
\* the right chain of the subtree at n, its last node given child as right
RECURSIVE HangRightmost(_, _, _)
HangRightmost(h, n, child) ==
    IF h[n].right = nullptr THEN [h EXCEPT ![n].right = child]
    ELSE HangRightmost(h, h[n].right, child)

\* fault "NoThrow": a key that is absent is not reported;
\* fault "Rightmost": the left subtree is hung under the greatest node of
\*   the right subtree;
\* fault "UnderRight": the left subtree is inserted under the right subtree
RECURSIVE removeHelper_Faulty(_, _, _, _)
removeHelper_Faulty(h, current, key, fault) ==
    IF current = nullptr
    THEN [heap |-> h, node |-> nullptr, retVal |-> NoVal,
          thrown |-> fault # "NoThrow"]
    ELSE IF h[current].key < key
    THEN LET r == removeHelper_Faulty(h, h[current].right, key, fault)
         IN  IF r.thrown THEN r
             ELSE [heap |-> [r.heap EXCEPT ![current].right = r.node],
                   node |-> current, retVal |-> r.retVal, thrown |-> FALSE]
    ELSE IF h[current].key > key
    THEN LET r == removeHelper_Faulty(h, h[current].left, key, fault)
         IN  IF r.thrown THEN r
             ELSE [heap |-> [r.heap EXCEPT ![current].left = r.node],
                   node |-> current, retVal |-> r.retVal, thrown |-> FALSE]
    ELSE LET L == h[current].left
             R == h[current].right
             remaining ==
                 IF R = nullptr
                 THEN [heap |-> h, node |-> L]
                 ELSE IF fault = "Rightmost" /\ L # nullptr
                 THEN [heap |-> HangRightmost(h, R, L), node |-> R]
                 ELSE IF fault = "UnderRight" /\ L # nullptr
                 THEN addHelper(h, R, L)
                 ELSE addHelper(h, L, R)
         IN  [heap |-> Delete(remaining.heap, current), node |-> remaining.node,
              retVal |-> h[current].value, thrown |-> FALSE]

removeHelper_NoThrow(h, current, key) ==
    removeHelper_Faulty(h, current, key, "NoThrow")

removeHelper_Rightmost(h, current, key) ==
    removeHelper_Faulty(h, current, key, "Rightmost")

removeHelper_UnderRight(h, current, key) ==
    removeHelper_Faulty(h, current, key, "UnderRight")

\* ---------------------------------------------------------- removeHelper
\* Result: the heap after the call, the returned subtree root, *retVal and
\* whether std::out_of_range left the call (then nothing was assigned).
RECURSIVE removeHelper(_, _, _)
removeHelper(h, current, key) ==
    IF current = nullptr
    THEN [heap |-> h, node |-> nullptr, retVal |-> NoVal, thrown |-> TRUE]
    ELSE IF h[current].key < key
    THEN LET r == removeHelper(h, h[current].right, key)
         IN  IF r.thrown THEN r
             ELSE [heap |-> [r.heap EXCEPT ![current].right = r.node],
                   node |-> current, retVal |-> r.retVal, thrown |-> FALSE]
    ELSE IF h[current].key > key
    THEN LET r == removeHelper(h, h[current].left, key)
         IN  IF r.thrown THEN r
             ELSE [heap |-> [r.heap EXCEPT ![current].left = r.node],
                   node |-> current, retVal |-> r.retVal, thrown |-> FALSE]
    ELSE LET remaining ==
                 IF h[current].right # nullptr
                 THEN addHelper(h, h[current].left, h[current].right)
                 ELSE [heap |-> h, node |-> h[current].left, success |-> TRUE]
         IN  [heap |-> Delete(remaining.heap, current), node |-> remaining.node,
              retVal |-> h[current].value, thrown |-> FALSE]

\* -------------------------------------------------------------- atHelper
RECURSIVE atHelper(_, _, _)
atHelper(h, current, key) ==
    IF current = nullptr
    THEN [thrown |-> TRUE, node |-> nullptr, value |-> NoVal]
    ELSE IF h[current].key < key THEN atHelper(h, h[current].right, key)
    ELSE IF h[current].key > key THEN atHelper(h, h[current].left, key)
    ELSE [thrown |-> FALSE, node |-> current, value |-> h[current].value]

\* ---------------------------------------------- the public operations
\* A map is the record [heap, root, size]; a call returns the map it leaves
\* and what the caller sees.
Map(h, r, s) == [heap |-> h, root |-> r, size |-> s]

\* payload: << >> for none, <<value>> for a V, <<key, value>> for a pair<K, V>
Outcome(op, ok, payload, exc) ==
    [op |-> op, ok |-> ok, payload |-> payload, exc |-> exc]

\* add that counts the call even when the key collides
add_CountsCollision(m, key, value, a) ==
    IF a = nullptr
    THEN [map |-> m, out |-> Outcome("add", FALSE, << >>, "none")]
    ELSE LET r == addHelper(New(m.heap, a, TreeMapNode(key, value)), m.root, a)
         IN  [map |-> Map(r.heap, r.node, Inc(m.size)),
              out |-> Outcome("add", r.success, << >>, "none")]

\* bool add(key, value); a is the address `new` returns, nullptr for bad_alloc
add(m, key, value, a) ==
    IF a = nullptr
    THEN [map |-> m, out |-> Outcome("add", FALSE, << >>, "none")]
    ELSE LET r == addHelper(New(m.heap, a, TreeMapNode(key, value)), m.root, a)
         IN  [map |-> Map(r.heap, r.node,
                          IF r.success THEN Inc(m.size) ELSE m.size),
              out |-> Outcome("add", r.success, << >>, "none")]

\* remove that leaves size_ as it is
remove_NoDecrement(m, key) ==
    LET r == removeHelper(m.heap, m.root, key)
    IN  IF r.thrown
        THEN [map |-> m,
              out |-> Outcome("remove", FALSE, << >>, "out_of_range")]
        ELSE [map |-> Map(r.heap, r.node, m.size),
              out |-> Outcome("remove", TRUE, <<r.retVal>>, "none")]

\* V remove(key)
remove(m, key) ==
    LET r == removeHelper(m.heap, m.root, key)
    IN  IF r.thrown
        THEN [map |-> m,
              out |-> Outcome("remove", FALSE, << >>, "out_of_range")]
        ELSE [map |-> Map(r.heap, r.node, Dec(m.size)),
              out |-> Outcome("remove", TRUE, <<r.retVal>>, "none")]

\* V& at(key)
at(m, key) ==
    LET r == atHelper(m.heap, m.root, key)
    IN  IF r.thrown
        THEN [map |-> m, out |-> Outcome("at", FALSE, << >>, "out_of_range")]
        ELSE [map |-> m, out |-> Outcome("at", TRUE, <<r.value>>, "none")]

\* unsigned int size()
size(m) == m.size

this == Map(heap, root_, size_)

\* what `new` can return: any free address; with none left it throws
\* bad_alloc, which add catches (nullptr stands for that)
NewResults == IF FreeAddrs = {} THEN {nullptr} ELSE FreeAddrs

\* ---------------------------------------------------------- TreeIterator
\* toBeProcessed_ is a sequence of node addresses, its top the last element.
Top(stack) == stack[Len(stack)]

Pop(stack) == SubSeq(stack, 1, Len(stack) - 1)

\* while (root != nullptr) { push(root); root = root->left; }
RECURSIVE PushLeftChain(_, _, _)
PushLeftChain(h, stack, node) ==
    IF node = nullptr THEN stack
    ELSE PushLeftChain(h, Append(stack, node), h[node].left)

\* TreeIterator(TreeMapNode* root)
TreeIterator(h, root) == PushLeftChain(h, << >>, root)

\* TreeIterator(): the past-the-end iterator
PastTheEnd == << >>

isLegal(stack) == Len(stack) # 0

\* equality that looks only at how many nodes are pending
IterEq_BySize(lhs, rhs) == Len(lhs) = Len(rhs)

\* operator== and operator!= compare the two stacks of node addresses
IterEq(lhs, rhs) == lhs = rhs

IterNeq(lhs, rhs) == lhs # rhs

\* advance that pushes the right child alone, not the left chain under it
PreInc_NoDescent(h, stack) ==
    IF ~isLegal(stack)
    THEN [stack |-> stack, thrown |-> TRUE]
    ELSE LET current == Top(stack)
         IN  [stack |-> IF h[current].right # nullptr
                        THEN Append(Pop(stack), h[current].right)
                        ELSE Pop(stack),
              thrown |-> FALSE]

\* operator++(): the stack it leaves, and whether out_of_range was thrown
PreInc(h, stack) ==
    IF ~isLegal(stack)
    THEN [stack |-> stack, thrown |-> TRUE]
    ELSE LET current == Top(stack)
         IN  [stack |-> IF h[current].right # nullptr
                        THEN PushLeftChain(h, Pop(stack), h[current].right)
                        ELSE Pop(stack),
              thrown |-> FALSE]

\* operator++(int): tmp is the copy taken before the advance
PostInc(h, stack) ==
    LET tmp == stack
        r   == PreInc(h, stack)
    IN  [stack |-> r.stack, tmp |-> tmp, thrown |-> r.thrown]

\* dereference without the isLegal() check
Deref_Unchecked(h, stack) ==
    Outcome("*", TRUE,
            IF isLegal(stack) THEN <<h[Top(stack)].key, h[Top(stack)].value>>
            ELSE << >>, "none")

\* operator*()
Deref(h, stack) ==
    IF ~isLegal(stack)
    THEN Outcome("*", FALSE, << >>, "out_of_range")
    ELSE Outcome("*", TRUE, <<h[Top(stack)].key, h[Top(stack)].value>>, "none")

\* operator->()
Arrow(h, stack) ==
    IF ~isLegal(stack)
    THEN Outcome("->", FALSE, << >>, "out_of_range")
    ELSE LET current == Top(stack)
         IN  Outcome("->", TRUE, <<h[current].key, h[current].value>>, "none")

\* i applications of operator++() to begin()
RECURSIVE Advanced(_, _, _)
Advanced(h, stack, i) ==
    IF i = 0 THEN stack ELSE Advanced(h, PreInc(h, stack).stack, i - 1)

\* The iterator object of the caller: its stack, and two history fields, how
\* it was made ("begin" or "end") and how many times it has advanced since.
NoIterator == [alive |-> FALSE, stack |-> << >>, from |-> "none", steps |-> 0]

Iterator(stack, from, steps) ==
    [alive |-> TRUE, stack |-> stack, from |-> from, steps |-> steps]

\* ---------------------------------------------------------------- actions
Init ==
    /\ heap = << >>
    /\ root_ = nullptr
    /\ size_ = 0
    /\ it = NoIterator
    /\ ret = Outcome("TreeMap", TRUE, << >>, "none")

Apply(r) ==
    /\ heap' = r.map.heap
    /\ root_' = r.map.root
    /\ size_' = r.map.size
    /\ ret' = r.out

\* Usage note 4: the caller modifies the tree only while it holds no iterator.
Add ==
    /\ ~it.alive
    /\ \E k \in Keys, v \in Vals, a \in NewResults : Apply(add(this, k, v, a))
    /\ UNCHANGED it

Remove ==
    /\ ~it.alive
    /\ \E k \in Keys : Apply(remove(this, k))
    /\ UNCHANGED it

At ==
    /\ \E k \in Keys : Apply(at(this, k))
    /\ UNCHANGED it

\* auto it = tm.begin();
Begin ==
    /\ ~it.alive
    /\ it' = Iterator(TreeIterator(heap, root_), "begin", 0)
    /\ ret' = Outcome("begin", TRUE, << >>, "none")
    /\ UNCHANGED <<heap, root_, size_>>

\* auto it = tm.end();
End ==
    /\ ~it.alive
    /\ it' = Iterator(PastTheEnd, "end", 0)
    /\ ret' = Outcome("end", TRUE, << >>, "none")
    /\ UNCHANGED <<heap, root_, size_>>

\* ~TreeIterator()
Destroy ==
    /\ it.alive
    /\ it' = NoIterator
    /\ ret' = Outcome("~TreeIterator", TRUE, << >>, "none")
    /\ UNCHANGED <<heap, root_, size_>>

\* ++it;
PrefixInc ==
    /\ it.alive
    /\ LET r == PreInc(heap, it.stack)
       IN  IF r.thrown
           THEN /\ it' = it
                /\ ret' = Outcome("++", FALSE, << >>, "out_of_range")
           ELSE /\ it' = Iterator(r.stack, it.from, it.steps + 1)
                /\ ret' = Outcome("++", TRUE, << >>, "none")
    /\ UNCHANGED <<heap, root_, size_>>

\* (it++)->first, (it++)->second: the caller reads the payload of the copy
\* that is returned
PostfixInc ==
    /\ it.alive
    /\ LET r == PostInc(heap, it.stack)
       IN  IF r.thrown
           THEN /\ it' = it
                /\ ret' = Outcome("++(int)", FALSE, << >>, "out_of_range")
           ELSE /\ it' = Iterator(r.stack, it.from, it.steps + 1)
                /\ ret' = [Arrow(heap, r.tmp) EXCEPT !.op = "++(int)"]
    /\ UNCHANGED <<heap, root_, size_>>

\* *it
Dereference ==
    /\ it.alive
    /\ ret' = Deref(heap, it.stack)
    /\ UNCHANGED <<heap, root_, size_, it>>

\* it->first, it->second
MemberAccess ==
    /\ it.alive
    /\ ret' = Arrow(heap, it.stack)
    /\ UNCHANGED <<heap, root_, size_, it>>

\* it.isLegal()
IsLegal ==
    /\ it.alive
    /\ ret' = Outcome("isLegal", isLegal(it.stack), << >>, "none")
    /\ UNCHANGED <<heap, root_, size_, it>>

\* The iterators the caller compares it with: tm.end(), or tm.begin()
\* advanced some number of times.
Others ==
    {PastTheEnd} \cup
    {Advanced(heap, TreeIterator(heap, root_), j) : j \in 0..Cardinality(DOMAIN heap)}

\* it == other, it != other
Compare ==
    /\ it.alive
    /\ \E other \in Others :
         \/ ret' = Outcome("==", IterEq(it.stack, other), << >>, "none")
         \/ ret' = Outcome("!=", IterNeq(it.stack, other), << >>, "none")
    /\ UNCHANGED <<heap, root_, size_, it>>

NextTree == Add \/ Remove \/ At

NextIter ==
    \/ Begin \/ End \/ Destroy
    \/ PrefixInc \/ PostfixInc
    \/ Dereference \/ MemberAccess \/ IsLegal \/ Compare

\* the map alone: no iterator is ever made
Spec == Init /\ [][NextTree]_vars

\* the map and an iterator over it
SpecIter == Init /\ [][NextTree \/ NextIter]_vars

\* ------------------------------------------------- what the tree holds
\* These read the node graph directly (every node that can be reached from
\* the root by child links), not through the map's search.
RECURSIVE Reach(_, _)
Reach(h, n) ==
    IF n = nullptr THEN {}
    ELSE {n} \cup Reach(h, h[n].left) \cup Reach(h, h[n].right)

Nodes == Reach(heap, root_)

KeysUnder(h, n) == {h[a].key : a \in Reach(h, n)}

PresentKeys == KeysUnder(heap, root_)

NodeOf(k) == CHOOSE a \in Nodes : heap[a].key = k

Stored(k) == heap[NodeOf(k)].value

\* the position of k among the present keys, in ascending order, from 1
Rank(k) == Cardinality({j \in PresentKeys : j < k}) + 1

FromBegin(i) == Advanced(heap, TreeIterator(heap, root_), i)

\* the iterators begin() gives after 0, 1, ... advances, one per node and one more
Walk == [i \in 0..Cardinality(Nodes) |-> FromBegin(i)]

\* ------------------------------------------------------------------ C1
\* C1: for every key k that is not present and every value v, when the node
\* is allocated, add(k, v) returns true, at(k) then returns v, and size() is
\* one greater than before.
C1_AddAbsentKey ==
    \A k \in Keys \ PresentKeys, v \in Vals, a \in FreeAddrs :
        LET r == add(this, k, v, a)
        IN  /\ r.out = Outcome("add", TRUE, << >>, "none")
            /\ at(r.map, k).out = Outcome("at", TRUE, <<v>>, "none")
            /\ size(r.map) = size_ + 1

\* an add has just succeeded on a map that held a key already, and a further
\* absent key and a free node are there for the next one
C1_Witness ==
    /\ ret.op = "add" /\ ret.ok
    /\ size_ = 2
    /\ Keys \ PresentKeys # {}
    /\ FreeAddrs # {}

\* ------------------------------------------------------------------ C2
\* C2: for every present key k with value v1 and every value v2, add(k, v2)
\* returns false and leaves the map exactly as it was: same nodes, links,
\* keys and values, same size, and at(k) still returns v1.
C2_AddPresentKey ==
    \A k \in PresentKeys, v2 \in Vals, a \in NewResults :
        LET r == add(this, k, v2, a)
        IN  /\ r.out = Outcome("add", FALSE, << >>, "none")
            /\ r.map = this
            /\ at(r.map, k).out = Outcome("at", TRUE, <<Stored(k)>>, "none")

\* an add has just failed on a key collision: memory was left, and the key
\* is stored with some value while another value could have been given
C2_Witness ==
    /\ ret.op = "add" /\ ~ret.ok
    /\ FreeAddrs # {}
    /\ size_ = 2
    /\ \E k \in PresentKeys : Vals \ {Stored(k)} # {}

\* ------------------------------------------------------------------ C3
\* C3: for every present key k with value v, remove(k) returns v, size() is
\* one less than before, and at(k) then fails with out_of_range.
C3_RemovePresentKey ==
    \A k \in PresentKeys :
        LET r == remove(this, k)
        IN  /\ r.out = Outcome("remove", TRUE, <<Stored(k)>>, "none")
            /\ size(r.map) = size_ - 1
            /\ at(r.map, k).out = Outcome("at", FALSE, << >>, "out_of_range")

\* a remove has just returned a value, and two entries are left
C3_Witness ==
    /\ ret.op = "remove" /\ ret.ok /\ \E v \in Vals : ret.payload = <<v>>
    /\ size_ = 2

\* ------------------------------------------------------------------ C4
\* C4: for every key k that is not present (the empty map included), at(k)
\* and remove(k) fail with out_of_range and leave the size and the whole
\* tree as they were.
C4_AbsentKeyFails ==
    \A k \in Keys \ PresentKeys :
        /\ at(this, k).out = Outcome("at", FALSE, << >>, "out_of_range")
        /\ at(this, k).map = this
        /\ remove(this, k).out = Outcome("remove", FALSE, << >>, "out_of_range")
        /\ remove(this, k).map = this

\* a remove has just failed on a map that holds other keys
C4_Witness ==
    /\ ret.op = "remove" /\ ret.exc = "out_of_range"
    /\ size_ = 2
    /\ Cardinality(Nodes) = 2

\* ------------------------------------------------------------------ C5
\* C5: an iterator from begin(), advanced with ++, yields every present key
\* once, in ascending order, with its stored value, and equals end() after
\* exactly size() advances and not before.
C5_InOrderTraversal ==
    LET w == Walk
    IN  /\ \A k \in PresentKeys :
               Deref(heap, w[Rank(k) - 1]) = Outcome("*", TRUE, <<k, Stored(k)>>, "none")
        /\ \A i \in DOMAIN w : IterEq(w[i], PastTheEnd) <=> i = size_
        /\ (it.alive /\ it.from = "begin") => it.stack = w[it.steps]

\* the caller's iterator has walked a map of three entries to its end
C5_Witness ==
    /\ it.alive /\ it.from = "begin"
    /\ size_ = 3 /\ it.steps = 3
    /\ ret.op = "++" /\ ret.ok
    /\ IterEq(it.stack, PastTheEnd)

\* ------------------------------------------------------------------ C6
\* C6: two iterators from begin() of the same tree, advanced i and j times,
\* compare equal exactly when i = j, and != is the negation; past-the-end
\* iterators are equal however they were made.
C6_IteratorEquality ==
    LET w == Walk
    IN  /\ \A i, j \in DOMAIN w :
               /\ IterEq(w[i], w[j]) <=> i = j
               /\ IterNeq(w[i], w[j]) <=> i # j
        /\ (it.alive /\ ~isLegal(it.stack)) =>
               /\ IterEq(it.stack, PastTheEnd)
               /\ IterEq(it.stack, w[Cardinality(Nodes)])
               /\ ~IterNeq(it.stack, PastTheEnd)

\* the caller's iterator, one step into a map of three entries, has just
\* compared equal to another iterator
C6_Witness ==
    /\ it.alive /\ it.from = "begin" /\ it.steps = 1
    /\ size_ = 3
    /\ ret.op = "==" /\ ret.ok

\* ------------------------------------------------------------------ C7
\* C7: on a past-the-end iterator, ++it, it++, *it and it-> each fail with
\* out_of_range and leave the iterator past-the-end; on any other iterator
\* none of them fails.
C7_PastTheEndFails ==
    it.alive =>
        IF ~isLegal(it.stack)
        THEN /\ PreInc(heap, it.stack).thrown
             /\ IterEq(PreInc(heap, it.stack).stack, PastTheEnd)
             /\ PostInc(heap, it.stack).thrown
             /\ IterEq(PostInc(heap, it.stack).stack, PastTheEnd)
             /\ Deref(heap, it.stack).exc = "out_of_range"
             /\ Arrow(heap, it.stack).exc = "out_of_range"
        ELSE /\ ~PreInc(heap, it.stack).thrown
             /\ ~PostInc(heap, it.stack).thrown
             /\ Deref(heap, it.stack).exc = "none"
             /\ Arrow(heap, it.stack).exc = "none"

\* ++ has just failed on an iterator that had walked the whole map
C7_Witness ==
    /\ it.alive /\ it.from = "begin" /\ it.steps = size_ /\ size_ = 2
    /\ ret.op = "++" /\ ret.exc = "out_of_range"
    /\ ~isLegal(it.stack)

\* ------------------------------------------------------------------ C8
\* C8: in every reachable state, every node's left subtree holds only keys
\* less than the node's key and its right subtree only keys greater.
C8_SearchTreeOrder ==
    \A n \in Nodes :
        /\ \A k \in KeysUnder(heap, heap[n].left) : k < heap[n].key
        /\ \A k \in KeysUnder(heap, heap[n].right) : k > heap[n].key

\* a remove has just spliced a node out and left a node that has a child
C8_Witness ==
    /\ ret.op = "remove" /\ ret.ok
    /\ \E n \in Nodes : heap[n].left # nullptr \/ heap[n].right # nullptr

\* ------------------------------------------------------------------ C9
\* C9: in every reachable state size() is the number of nodes reachable from
\* the root, their keys are pairwise distinct, and the count has not wrapped
\* below zero.
C9_CountMatchesNodes ==
    /\ size_ = Cardinality(Nodes)
    /\ \A a, b \in Nodes : a # b => heap[a].key # heap[b].key
    /\ size_ >= 0 /\ size_ # UINT_MAX

\* a remove has just failed on the empty map, the count still 0
C9_Witness ==
    /\ ret.op = "remove" /\ ret.exc = "out_of_range"
    /\ size_ = 0 /\ Nodes = {}

\* ----------------------------------------------------------------- C10
\* The tree remove(k) is to leave: x is the node of k.
Replacement(x) ==
    IF heap[x].right # nullptr /\ heap[x].left = nullptr
    THEN heap[x].right
    ELSE heap[x].left

MaxNode(n) ==
    CHOOSE a \in Reach(heap, n) : \A b \in Reach(heap, n) : heap[b].key <= heap[a].key

SplicedHeap(x) ==
    LET L == heap[x].left
        R == heap[x].right
        M == IF L # nullptr /\ R # nullptr THEN MaxNode(L) ELSE nullptr
    IN  [a \in DOMAIN heap \ {x} |->
            [heap[a] EXCEPT
                !.left  = IF heap[a].left = x THEN Replacement(x) ELSE heap[a].left,
                !.right = IF a = M THEN R
                          ELSE IF heap[a].right = x THEN Replacement(x)
                          ELSE heap[a].right]]

SplicedRoot(x) == IF root_ = x THEN Replacement(x) ELSE root_

====
